---- MODULE Spec2Model ----
(***************************************************************************)
(* Model of the Sales + Attendance Dashboard API (src/main.py).            *)
(*                                                                         *)
(* Three specifications share the module:                                  *)
(*   SpecTime  applies the two pure resolvers, shift_start_ph and          *)
(*             attendance_day_for, to every instant of a bounded set;      *)
(*   Spec      handles one HTTP request step by step against a store       *)
(*             chosen at start-up;                                         *)
(*   SpecConc  interleaves the steps of NumProcs requests.                 *)
(***************************************************************************)
EXTENDS Integers, Sequences, FiniteSets, TLC

(***************************************************************************)
(* Bounds of the model.                                                    *)
(***************************************************************************)
\* largest number of rows in the attendance_clockins table
MaxAttendRows == 3
\* largest number of rows in the sales table
MaxSalesRows == 3
\* number of requests handled concurrently under SpecConc
NumProcs == 2

(***************************************************************************)
(* Calendar arithmetic of datetime.date: proleptic Gregorian ordinals,     *)
(* counted from 1 January 2023 so that they stay small.                    *)
(***************************************************************************)
Years == 2022..2025

IsLeap(y) == (y % 4 = 0) /\ ((y % 100 # 0) \/ (y % 400 = 0))

DaysInMonth(y, m) ==
    IF m = 2 THEN (IF IsLeap(y) THEN 29 ELSE 28)
    ELSE IF m \in {4, 6, 9, 11} THEN 30 ELSE 31

RECURSIVE DaysBeforeMonth(_, _)
DaysBeforeMonth(y, m) ==
    IF m = 1 THEN 0 ELSE DaysBeforeMonth(y, m - 1) + DaysInMonth(y, m - 1)

DaysInYear(y) == IF IsLeap(y) THEN 366 ELSE 365

RECURSIVE DaysBeforeYear(_)
DaysBeforeYear(y) ==
    IF y = 2023 THEN 0
    ELSE IF y > 2023 THEN DaysBeforeYear(y - 1) + DaysInYear(y - 1)
    ELSE DaysBeforeYear(y + 1) - DaysInYear(y)

MkDate(y, m, d) == [year |-> y, month |-> m, day |-> d]

\* date.toordinal()
ToOrdinal(d) == DaysBeforeYear(d.year) + DaysBeforeMonth(d.year, d.month) + d.day

\* date.fromordinal(n)
FromOrdinal(n) ==
    LET y == CHOOSE yy \in Years :
                 DaysBeforeYear(yy) < n /\ n <= DaysBeforeYear(yy) + DaysInYear(yy)
        r == n - DaysBeforeYear(y)
        m == CHOOSE mm \in 1..12 :
                 DaysBeforeMonth(y, mm) < r
                 /\ r <= DaysBeforeMonth(y, mm) + DaysInMonth(y, mm)
    IN MkDate(y, m, r - DaysBeforeMonth(y, m))

\* date - timedelta(days=n)
DateMinusDays(d, n) == FromOrdinal(ToOrdinal(d) - n)

(***************************************************************************)
(* datetime values: the wall-clock fields and the zone they are read in.   *)
(***************************************************************************)
PH_TZ == "Asia/Manila"
UTC_TZ == "UTC"

\* utcoffset() of the two zones in hours (Asia/Manila keeps no DST)
UtcOffsetHours(tz) == IF tz = PH_TZ THEN 8 ELSE 0

MkDateTime(y, mo, d, h, mi, s, us, tz) ==
    [year |-> y, month |-> mo, day |-> d, hour |-> h, minute |-> mi,
     second |-> s, microsecond |-> us, tzinfo |-> tz]

\* datetime.date()
DateOf(dt) == MkDate(dt.year, dt.month, dt.day)

\* datetime.time(): the naive time of day
TimeOf(dt) == <<dt.hour, dt.minute, dt.second, dt.microsecond>>

\* time.__lt__: lexicographic on (hour, minute, second, microsecond)
TimeLess(a, b) ==
    \E k \in 1..4 : a[k] < b[k] /\ \A j \in 1..(k - 1) : a[j] = b[j]

\* datetime.astimezone(tz): the same instant, read in zone tz
AsTimezone(dt, tz) ==
    LET h    == dt.hour + UtcOffsetHours(tz) - UtcOffsetHours(dt.tzinfo)
        roll == IF h >= 24 THEN 1 ELSE IF h < 0 THEN -1 ELSE 0
        d    == IF roll = 0 THEN DateOf(dt) ELSE DateMinusDays(DateOf(dt), -roll)
    IN MkDateTime(d.year, d.month, d.day, h - 24 * roll, dt.minute, dt.second,
                  dt.microsecond, tz)

\* seconds of the instant since the start of 2023 (UTC); used to order
\* timestamps of different zones as PostgreSQL orders timestamptz values
EpochSeconds(dt) ==
    (((ToOrdinal(DateOf(dt)) * 24 + dt.hour - UtcOffsetHours(dt.tzinfo)) * 60
      + dt.minute) * 60) + dt.second

\* date.isoformat(): the text YYYY-MM-DD, kept as its fields
DateIsoFormat(d) == <<"date", d.year, "-", d.month, "-", d.day>>

\* datetime.isoformat(): YYYY-MM-DDTHH:MM:SS[.ffffff]+HH:00, kept as its fields;
\* the fraction is printed only when it is not zero
DateTimeIsoFormat(dt) ==
    <<"datetime", dt.year, "-", dt.month, "-", dt.day, "T", dt.hour, ":",
      dt.minute, ":", dt.second>>
    \o (IF dt.microsecond = 0 THEN <<>> ELSE <<".", dt.microsecond>>)
    \o <<"+", UtcOffsetHours(dt.tzinfo)>>

(***************************************************************************)
(* The two resolvers.                                                      *)
(***************************************************************************)
shift_start_ph_early(dt) ==
    LET d == DateOf(dt)
        h == dt.hour
    IN IF 8 < h /\ h < 16
         THEN MkDateTime(d.year, d.month, d.day, 8, 0, 0, 0, PH_TZ)
       ELSE IF 16 <= h /\ h < 24
         THEN MkDateTime(d.year, d.month, d.day, 16, 0, 0, 0, PH_TZ)
       ELSE MkDateTime(d.year, d.month, d.day, 0, 0, 0, 0, PH_TZ)

shift_start_ph(dt) ==
    LET d == DateOf(dt)
        h == dt.hour
    IN IF 8 <= h /\ h < 16
         THEN MkDateTime(d.year, d.month, d.day, 8, 0, 0, 0, PH_TZ)
       ELSE IF 16 <= h /\ h < 24
         THEN MkDateTime(d.year, d.month, d.day, 16, 0, 0, 0, PH_TZ)
       ELSE MkDateTime(d.year, d.month, d.day, 0, 0, 0, 0, PH_TZ)

attendance_day_for_inclusive(ph_dt) ==
    IF ~TimeLess(<<6, 0, 0, 0>>, TimeOf(ph_dt))
      THEN DateMinusDays(DateOf(ph_dt), 1)
    ELSE DateOf(ph_dt)

attendance_day_for(ph_dt) ==
    IF TimeLess(TimeOf(ph_dt), <<6, 0, 0, 0>>)
      THEN DateMinusDays(DateOf(ph_dt), 1)
    ELSE DateOf(ph_dt)

(***************************************************************************)
(* State.                                                                  *)
(***************************************************************************)
VARIABLES
    \* the three tables the handlers read (the service never writes them)
    teams_table, sales, attendance_clockins,
    \* per request: the request, the handler's position and its locals
    req, pc, now, start, att_day, rows, grouped, idx, resp,
    \* per request: what its handling has done so far
    trace,
    \* SpecTime: the instant under test and the resolvers' results
    t, shiftStart, attDay

storeVars == <<teams_table, sales, attendance_clockins>>
reqVars == <<req, pc, now, start, att_day, rows, grouped, idx, resp, trace>>
timeVars == <<t, shiftStart, attDay>>
vars == <<teams_table, sales, attendance_clockins,
          req, pc, now, start, att_day, rows, grouped, idx, resp, trace,
          t, shiftStart, attDay>>

Procs == 1..NumProcs

\* Optional[...] values: None is the empty tuple, a value v is <<v>>
None == <<>>
Some(v) == <<v>>

\* the value of a bound Optional
Get(o) == o[1]

(***************************************************************************)
(* SpecTime: the resolvers applied to every instant of Instants.           *)
(***************************************************************************)
TestDates == {MkDate(2024, 3, 10), MkDate(2024, 3, 1), MkDate(2024, 1, 1),
              MkDate(2023, 3, 1)}

Instants ==
    {MkDateTime(d.year, d.month, d.day, h, mi, s, us, PH_TZ) :
        d \in TestDates, h \in 0..23, mi \in {0, 59}, s \in {0, 59},
        us \in {0, 999999}}

\* no request has arrived: every handler local is unbound (None)
InitIdle ==
    /\ req = [i \in Procs |-> None]
    /\ pc = [i \in Procs |-> "idle"]
    /\ now = [i \in Procs |-> None]
    /\ start = [i \in Procs |-> None]
    /\ att_day = [i \in Procs |-> None]
    /\ rows = [i \in Procs |-> None]
    /\ grouped = [i \in Procs |-> None]
    /\ idx = [i \in Procs |-> 0]
    /\ resp = [i \in Procs |-> None]
    /\ trace = [i \in Procs |-> <<>>]

InitTime ==
    /\ teams_table = {}
    /\ sales = {}
    /\ attendance_clockins = {}
    /\ InitIdle
    /\ t \in Instants
    /\ shiftStart = None
    /\ attDay = None

ApplyShiftStart ==
    /\ shiftStart = None
    /\ shiftStart' = Some(shift_start_ph(t))
    /\ UNCHANGED <<storeVars, reqVars, t, attDay>>

ApplyAttendanceDay ==
    /\ attDay = None
    /\ attDay' = Some(attendance_day_for(t))
    /\ UNCHANGED <<storeVars, reqVars, t, shiftStart>>

NextTime == ApplyShiftStart \/ ApplyAttendanceDay

SpecTime == InitTime /\ [][NextTime]_vars

\* p is the calendar date just before d
IsDayBefore(p, d) ==
    \/ d.day > 1 /\ p = MkDate(d.year, d.month, d.day - 1)
    \/ d.day = 1 /\ d.month > 1
       /\ p = MkDate(d.year, d.month - 1, DaysInMonth(d.year, d.month - 1))
    \/ d.day = 1 /\ d.month = 1 /\ p = MkDate(d.year - 1, 12, 31)

\* C3: shift_start_ph(t) lies on t's own date, at 08:00 when t's hour is in
\* [8,16), at 16:00 when it is in [16,24) and at 00:00 when it is in [0,8),
\* with minutes, seconds and microseconds zero, in the Manila zone; each hour
\* falls in exactly one of the three cases.
C3_ShiftStart ==
    shiftStart # None =>
        LET s == Get(shiftStart)
            cases == {k \in {0, 8, 16} : k <= t.hour /\ t.hour < k + 8}
        IN /\ DateOf(s) = DateOf(t)
           /\ s.minute = 0 /\ s.second = 0 /\ s.microsecond = 0
           /\ s.tzinfo = PH_TZ
           /\ Cardinality(cases) = 1
           /\ s.hour \in cases

\* an instant exactly at hour 8 has been resolved to the 08:00 shift
C3_Witness ==
    /\ shiftStart # None
    /\ TimeOf(t) = <<8, 0, 0, 0>>
    /\ Get(shiftStart).hour = 8

\* C4: attendance_day_for(t) is the date before t's date when t's time of day
\* is strictly before 06:00:00, and t's date otherwise; 2024-03-10 05:59:59
\* gives 2024-03-09 and 2024-03-10 06:00:00 gives 2024-03-10.
C4_AttendanceDay ==
    attDay # None =>
        /\ IF t.hour < 6
             THEN IsDayBefore(Get(attDay), DateOf(t))
             ELSE Get(attDay) = DateOf(t)
        /\ (DateOf(t) = MkDate(2024, 3, 10) /\ TimeOf(t) = <<5, 59, 59, 0>>)
              => Get(attDay) = MkDate(2024, 3, 9)
        /\ (DateOf(t) = MkDate(2024, 3, 10) /\ TimeOf(t) = <<6, 0, 0, 0>>)
              => Get(attDay) = MkDate(2024, 3, 10)

\* 05:59:59 on the first day of a month has been resolved across the month end
C4_Witness ==
    /\ attDay # None
    /\ DateOf(t) = MkDate(2024, 3, 1)
    /\ TimeOf(t) = <<5, 59, 59, 0>>
    /\ Get(attDay) = MkDate(2024, 2, 29)

(***************************************************************************)
(* The stores.  A table is a set of rows, each with its own id; a query    *)
(* returns a sequence of dictionaries holding the selected columns.        *)
(***************************************************************************)
\* the order PostgreSQL gives the text values that occur in the tables
TextRank(s) ==
    CASE s = "closing" -> 1 [] s = "midshift" -> 2 [] s = "prime" -> 3
      [] s = "swing" -> 4
      [] s = "A" -> 1 [] s = "B" -> 2 [] s = "C" -> 3
      [] s = "L1" -> 1 [] s = "L2" -> 2
      [] s = "X" -> 1 [] s = "Y" -> 2

\* the sequences that list every row of the set S once, in an order that the
\* relation before (pairs <<a, b>>, a sorting ahead of b) allows: rows that
\* tie may come in either order
Orderings(S, before) ==
    {f \in [1..Cardinality(S) -> S] :
        /\ \A i, j \in 1..Cardinality(S) : i # j => f[i] # f[j]
        /\ \A i, j \in 1..Cardinality(S) : i < j => <<f[j], f[i]>> \notin before}

\* ---- teams ----
TeamRowPool ==
    {[id |-> 1, name |-> "X"], [id |-> 2, name |-> "Y"], [id |-> 3, name |-> "X"]}

\* SELECT DISTINCT name FROM teams ORDER BY name ASC
TeamsQuery(table) ==
    LET names == {[name |-> r.name] : r \in table}
    IN Orderings(names, {p \in names \X names : TextRank(p[1].name) < TextRank(p[2].name)})

\* ---- sales ----
MkSale(id, team, page, amount, ts) ==
    [id |-> id, team |-> team, page |-> page, amount |-> amount, ts |-> ts]

Utc(y, mo, d, h, mi, s) == MkDateTime(y, mo, d, h, mi, s, 0, UTC_TZ)
Ph(y, mo, d, h, mi, s) == MkDateTime(y, mo, d, h, mi, s, 0, PH_TZ)

SaleRowPool ==
    {MkSale(1, "X", "A", Some(10), Ph(2024, 3, 10, 8, 30, 0)),
     MkSale(2, "X", "A", Some(5), Utc(2024, 3, 10, 0, 0, 0)),
     MkSale(3, "X", "B", Some(7), Ph(2024, 3, 10, 9, 0, 0)),
     MkSale(4, "X", "B", Some(-9), Ph(2024, 3, 10, 9, 0, 0)),
     MkSale(5, "X", "C", None, Ph(2024, 3, 10, 9, 0, 0)),
     MkSale(6, "Y", "A", Some(4), Ph(2024, 3, 10, 9, 0, 0)),
     MkSale(7, "X", "B", Some(15), Utc(2024, 3, 9, 23, 59, 59)),
     MkSale(8, "X", "C", Some(15), Ph(2024, 3, 10, 16, 0, 0))}

\* SUM(amount) over a set of rows: NULL amounts are skipped, and the sum of
\* no value at all is NULL
RECURSIVE SumAmounts(_)
SumAmounts(S) ==
    IF S = {} THEN None
    ELSE LET r    == CHOOSE x \in S : TRUE
             rest == SumAmounts(S \ {r})
         IN IF r.amount = None THEN rest
            ELSE IF rest = None THEN r.amount
            ELSE Some(Get(rest) + Get(r.amount))

\* COALESCE(x, 0)
Coalesce0(x) == IF x = None THEN 0 ELSE Get(x)

\* WHERE team=%s AND ts >= %s
SalesWhere_strict(r, team, since) ==
    r.team = team /\ EpochSeconds(r.ts) > EpochSeconds(since)

SalesWhere(r, team, since) ==
    r.team = team /\ EpochSeconds(r.ts) >= EpochSeconds(since)

\* ORDER BY total DESC
SalesBefore(a, b) == a.total > b.total

\* SELECT page, COALESCE(SUM(amount),0)::float AS total FROM sales
\* WHERE team=%s AND ts >= %s GROUP BY page ORDER BY total DESC
SalesQuery(table, team, since) ==
    LET hit    == {r \in table : SalesWhere(r, team, since)}
        pages  == {r.page : r \in hit}
        groups == {[page |-> p,
                    total |-> Coalesce0(SumAmounts({r \in hit : r.page = p}))] :
                      p \in pages}
    IN Orderings(groups, {p \in groups \X groups : SalesBefore(p[1], p[2])})

\* ---- attendance ----
MkClockin(id, day, shift, page_key, user_name, is_cover, ph_ts) ==
    [id |-> id, attendance_day |-> day, shift |-> shift, page_key |-> page_key,
     user_name |-> user_name, is_cover |-> is_cover, ph_ts |-> ph_ts]

ClockinRowPool ==
    LET D == MkDate(2024, 3, 10)
    IN {MkClockin(1, D, "prime", "L1", "Ana", FALSE, Ph(2024, 3, 10, 8, 5, 0)),
        MkClockin(2, D, "prime", "L1", "Bo", TRUE, Ph(2024, 3, 10, 8, 10, 0)),
        MkClockin(3, D, "prime", "L1", "Cy", FALSE, Utc(2024, 3, 10, 0, 10, 0)),
        MkClockin(4, D, "prime", "L2", "Ana", FALSE, Ph(2024, 3, 10, 8, 5, 0)),
        MkClockin(5, D, "closing", "L1", "Bo", FALSE, Utc(2024, 3, 9, 16, 30, 0)),
        MkClockin(6, D, "swing", "L1", "Cy", TRUE, Ph(2024, 3, 10, 8, 5, 0)),
        MkClockin(7, D, "prime", "L1", "Dee", FALSE, Ph(2024, 3, 10, 8, 5, 0)),
        MkClockin(8, MkDate(2024, 3, 9), "prime", "L1", "Ana", FALSE,
                  Ph(2024, 3, 9, 8, 5, 0))}

\* ORDER BY shift, page_key, is_cover, ph_ts (false sorts before true)
ClockinKey(r) ==
    <<TextRank(r.shift), TextRank(r.page_key), IF r.is_cover THEN 1 ELSE 0,
      EpochSeconds(r.ph_ts)>>

ClockinBefore(a, b) ==
    \E k \in 1..4 :
        /\ ClockinKey(a)[k] < ClockinKey(b)[k]
        /\ \A j \in 1..(k - 1) : ClockinKey(a)[j] = ClockinKey(b)[j]

\* the dictionary a RealDictCursor returns for the selected columns
ClockinColumns(r) ==
    [shift |-> r.shift, page_key |-> r.page_key, user_name |-> r.user_name,
     is_cover |-> r.is_cover, ph_ts |-> r.ph_ts]

\* SELECT shift, page_key, user_name, is_cover, ph_ts FROM attendance_clockins
\* WHERE attendance_day=%s ORDER BY shift, page_key, is_cover, ph_ts
AttendanceQuery(table, day) ==
    LET hit == {r \in table : r.attendance_day = day}
    IN {[i \in DOMAIN f |-> ClockinColumns(f[i])] :
           f \in Orderings(hit, {p \in hit \X hit : ClockinBefore(p[1], p[2])})}

\* the tables the service may start against: one of the three is populated
SubsetsUpTo(S, n) == {T \in SUBSET S : Cardinality(T) <= n}

InitStore ==
    \/ /\ teams_table \in SUBSET TeamRowPool
       /\ sales = {}
       /\ attendance_clockins = {}
    \/ /\ teams_table = {}
       /\ sales \in SubsetsUpTo(SaleRowPool, MaxSalesRows) \ {{}}
       /\ attendance_clockins = {}
    \/ /\ teams_table = {}
       /\ sales = {}
       /\ attendance_clockins \in SubsetsUpTo(ClockinRowPool, MaxAttendRows) \ {{}}

(***************************************************************************)
(* Requests and responses.                                                 *)
(***************************************************************************)
\* the shared secret read from the environment at start-up
INTERNAL_KEY == "secret"

MkRequest(path, key, team) == [path |-> path, x_internal_key |-> key, team |-> team]

KeyHeaders == {None, Some("wrong"), Some(INTERNAL_KEY)}

\* the requests of Spec: every route with every key header; the team query
\* parameter is read by /sales/shift only
Requests ==
    {MkRequest(p, k, None) :
        p \in {"/health", "/teams", "/attendance/today"}, k \in KeyHeaders}
    \cup {MkRequest("/sales/shift", k, tm) :
            k \in KeyHeaders, tm \in {None, Some("X"), Some("Y")}}

\* the readings of the clock under Spec
ClockReadings ==
    {MkDateTime(2024, 3, 10, 5, 59, 59, 999999, PH_TZ),
     MkDateTime(2024, 3, 10, 6, 0, 0, 0, PH_TZ),
     MkDateTime(2024, 3, 10, 8, 0, 0, 0, PH_TZ),
     MkDateTime(2024, 3, 10, 15, 59, 59, 0, PH_TZ),
     MkDateTime(2024, 3, 10, 16, 0, 0, 250000, PH_TZ)}

MkResponse(status, body) == [status |-> status, body |-> body]

\* HTTPException(status_code=401, detail="Unauthorized")
Unauthorized == MkResponse(401, [detail |-> "Unauthorized"])

\* the framework's answer to a request that lacks a required parameter
ValidationError == MkResponse(422, [detail |-> "Field required"])

\* an exception of the store driver leaves the handler: the framework
\* answers 500
StoreFailure_swallowed == MkResponse(200, <<>>)

StoreFailure == MkResponse(500, "Internal Server Error")

\* the handler's signature names a required parameter the request lacks
MissingRequired_never(r) == FALSE

MissingRequired(r) == r.path = "/sales/shift" /\ r.team = None

\* x_internal_key != INTERNAL_KEY
KeyRejected_noneok(key) == key # Some(INTERNAL_KEY) /\ key # None

KeyRejected(key) == key # Some(INTERNAL_KEY)

(***************************************************************************)
(* The grouping of /attendance/today.  A dict is a function whose domain   *)
(* is its key set.                                                         *)
(***************************************************************************)
EmptyDict == <<>>

\* dict.setdefault(k, v), for the dict it leaves behind
SetDefault(d, k, v) == IF k \in DOMAIN d THEN d ELSE d @@ (k :> v)

\* grouped = {"prime": {}, "midshift": {}, "closing": {}}
NewGrouped_noclosing == ("prime" :> EmptyDict) @@ ("midshift" :> EmptyDict)

NewGrouped ==
    ("prime" :> EmptyDict) @@ ("midshift" :> EmptyDict) @@ ("closing" :> EmptyDict)

\* {"name": r["user_name"], "ph_ts": r["ph_ts"].astimezone(PH_TZ).isoformat()}
Entry(r) ==
    [name |-> r.user_name, ph_ts |-> DateTimeIsoFormat(AsTimezone(r.ph_ts, PH_TZ))]

\* the append of the loop body: covers when is_cover, users otherwise
AppendEntry_allusers(bucket, r) ==
    [bucket EXCEPT !.users = Append(@, Entry(r))]

AppendEntry(bucket, r) ==
    IF r.is_cover
      THEN [bucket EXCEPT !.covers = Append(@, Entry(r))]
      ELSE [bucket EXCEPT !.users = Append(@, Entry(r))]

\* one iteration of "for r in rows"
GroupRow(g, r) ==
    LET g1 == SetDefault(g, r.shift, EmptyDict)
        g2 == [g1 EXCEPT ![r.shift] =
                  SetDefault(@, r.page_key, [users |-> <<>>, covers |-> <<>>])]
    IN [g2 EXCEPT ![r.shift][r.page_key] = AppendEntry(@, r)]

\* the frame that holds request i's local "grouped"
GroupedCell_shared(i) == 1

GroupedCell(i) == i

(***************************************************************************)
(* The handlers, one action per step.  pc[i] is the position of request i. *)
(***************************************************************************)
Path(i) == Get(req[i]).path

\* request i ends with response r
Finish(i, r) ==
    /\ resp' = [resp EXCEPT ![i] = Some(r)]
    /\ pc' = [pc EXCEPT ![i] = "done"]

Goto(i, label) ==
    /\ pc' = [pc EXCEPT ![i] = label]
    /\ UNCHANGED resp

\* what the handling of request i does is recorded in trace[i], in order
LogAll(i, events) == trace' = [trace EXCEPT ![i] = @ \o events]

Log(i, event) == LogAll(i, <<event>>)

\* a request arrives
Receive(i, R) ==
    /\ pc[i] = "idle"
    /\ \E r \in R : req' = [req EXCEPT ![i] = Some(r)]
    /\ Goto(i, "dispatch")
    /\ UNCHANGED <<storeVars, timeVars, now, start, att_day, rows, grouped, idx, trace>>

\* the framework routes the request and binds the handler's parameters
\* before it calls the handler
Dispatch(i) ==
    /\ pc[i] = "dispatch"
    /\ IF MissingRequired(Get(req[i]))
         THEN Finish(i, ValidationError)
         ELSE Goto(i, IF Path(i) = "/health" THEN "health" ELSE "auth")
    /\ UNCHANGED <<storeVars, timeVars, req, now, start, att_day, rows, grouped, idx, trace>>

health(i) ==
    /\ pc[i] = "health"
    /\ Finish(i, MkResponse(200, [ok |-> TRUE]))
    /\ UNCHANGED <<storeVars, timeVars, req, now, start, att_day, rows, grouped, idx, trace>>

\* the first statement of teams, sales_shift and attendance_today
require_internal_key(i) ==
    /\ pc[i] = "auth"
    /\ Log(i, "auth")
    /\ IF KeyRejected(Get(req[i]).x_internal_key)
         THEN Finish(i, Unauthorized)
         ELSE Goto(i, IF Path(i) = "/teams" THEN "connect" ELSE "clock")
    /\ UNCHANGED <<storeVars, timeVars, req, now, start, att_day, rows, grouped, idx>>

\* now = now_ph()
now_ph(i, Clock) ==
    /\ pc[i] = "clock"
    /\ \E c \in Clock : now' = [now EXCEPT ![i] = Some(c)]
    /\ Log(i, "clock")
    /\ Goto(i, "resolve")
    /\ UNCHANGED <<storeVars, timeVars, req, start, att_day, rows, grouped, idx>>

\* start = shift_start_ph(now), or att_day = attendance_day_for(now)
Resolve(i) ==
    /\ pc[i] = "resolve"
    /\ IF Path(i) = "/sales/shift"
         THEN /\ start' = [start EXCEPT ![i] = Some(shift_start_ph(Get(now[i])))]
              /\ UNCHANGED att_day
         ELSE /\ att_day' = [att_day EXCEPT ![i] = Some(attendance_day_for(Get(now[i])))]
              /\ UNCHANGED start
    /\ Log(i, "resolve")
    /\ Goto(i, "connect")
    /\ UNCHANGED <<storeVars, timeVars, req, now, rows, grouped, idx>>

\* sales_conn() or attend_conn(), and the cursor: the store answers or not
Connect(i) ==
    /\ pc[i] = "connect"
    /\ \/ Log(i, "connect") /\ Goto(i, "execute")
       \/ LogAll(i, <<"connect", "error">>) /\ Finish(i, StoreFailure)
    /\ UNCHANGED <<storeVars, timeVars, req, now, start, att_day, rows, grouped, idx>>

\* the rows the handler's query may return
QueryResults(i) ==
    CASE Path(i) = "/teams" -> TeamsQuery(teams_table)
      [] Path(i) = "/sales/shift" ->
            SalesQuery(sales, Get(Get(req[i]).team), AsTimezone(Get(start[i]), UTC_TZ))
      [] Path(i) = "/attendance/today" ->
            AttendanceQuery(attendance_clockins, Get(att_day[i]))

\* cur.execute(...) and cur.fetchall(): the rows, or an error of the store
Execute(i) ==
    /\ pc[i] = "execute"
    /\ \/ /\ \E rs \in QueryResults(i) : rows' = [rows EXCEPT ![i] = Some(rs)]
          /\ Log(i, "query")
          /\ Goto(i, "exit")
       \/ /\ UNCHANGED rows
          /\ LogAll(i, <<"query", "error">>)
          /\ Finish(i, StoreFailure)
    /\ UNCHANGED <<storeVars, timeVars, req, now, start, att_day, grouped, idx>>

\* the end of the with block: the cursor is closed and the transaction
\* committed, either of which may fail
ExitWith(i) ==
    /\ pc[i] = "exit"
    /\ \/ /\ Goto(i, IF Path(i) = "/attendance/today" THEN "group" ELSE "respond")
          /\ UNCHANGED trace
       \/ /\ Log(i, "error")
          /\ Finish(i, StoreFailure)
    /\ UNCHANGED <<storeVars, timeVars, req, now, start, att_day, rows, grouped, idx>>

\* grouped = {"prime": {}, "midshift": {}, "closing": {}}
GroupInit(i) ==
    /\ pc[i] = "group"
    /\ grouped' = [grouped EXCEPT ![GroupedCell(i)] = Some(NewGrouped)]
    /\ idx' = [idx EXCEPT ![i] = 1]
    /\ Goto(i, "loop")
    /\ UNCHANGED <<storeVars, timeVars, req, now, start, att_day, rows, trace>>

\* for r in rows: one iteration, or the end of the loop
GroupLoop(i) ==
    /\ pc[i] = "loop"
    /\ \/ /\ idx[i] <= Len(Get(rows[i]))
          /\ grouped' = [grouped EXCEPT ![GroupedCell(i)] =
                            Some(GroupRow(Get(@), Get(rows[i])[idx[i]]))]
          /\ idx' = [idx EXCEPT ![i] = @ + 1]
          /\ UNCHANGED <<pc, resp>>
       \/ /\ idx[i] > Len(Get(rows[i]))
          /\ Goto(i, "respond")
          /\ UNCHANGED <<grouped, idx>>
    /\ UNCHANGED <<storeVars, timeVars, req, now, start, att_day, rows, trace>>

\* the value the handler returns
TeamsBody(rs) == [k \in DOMAIN rs |-> rs[k].name]

SalesBody(team, st, nw, rs) ==
    [team |-> team, shift_start_ph |-> DateTimeIsoFormat(st),
     updated_ph |-> DateTimeIsoFormat(nw), rows |-> rs]

AttendanceBody(day, nw, g) ==
    [attendance_day |-> DateIsoFormat(day), updated_ph |-> DateTimeIsoFormat(nw),
     data |-> g]

Respond(i) ==
    /\ pc[i] = "respond"
    /\ Finish(i, MkResponse(200,
          CASE Path(i) = "/teams" -> TeamsBody(Get(rows[i]))
            [] Path(i) = "/sales/shift" ->
                  SalesBody(Get(Get(req[i]).team), Get(start[i]), Get(now[i]),
                            Get(rows[i]))
            [] Path(i) = "/attendance/today" ->
                  AttendanceBody(Get(att_day[i]), Get(now[i]),
                                 Get(grouped[GroupedCell(i)]))))
    /\ UNCHANGED <<storeVars, timeVars, req, now, start, att_day, rows, grouped, idx, trace>>

Step(i, R, Clock) ==
    \/ Receive(i, R)
    \/ Dispatch(i)
    \/ health(i)
    \/ require_internal_key(i)
    \/ now_ph(i, Clock)
    \/ Resolve(i)
    \/ Connect(i)
    \/ Execute(i)
    \/ ExitWith(i)
    \/ GroupInit(i)
    \/ GroupLoop(i)
    \/ Respond(i)

InitTimeIdle ==
    /\ t = MkDateTime(2024, 3, 10, 0, 0, 0, 0, PH_TZ)
    /\ shiftStart = None
    /\ attDay = None

Init ==
    /\ InitStore
    /\ InitIdle
    /\ InitTimeIdle

Next == Step(1, Requests, ClockReadings)

Spec == Init /\ [][Next]_vars

(***************************************************************************)
(* Properties of request handling.  They are stated over every request of  *)
(* Procs, so that they read the same under Spec and under SpecConc.        *)
(***************************************************************************)
Done(i) == pc[i] = "done"
Status(i) == Get(resp[i]).status
Body(i) == Get(resp[i]).body
Succeeded(i) == Done(i) /\ Status(i) = 200
Did(i, event) == \E k \in DOMAIN trace[i] : trace[i][k] = event

ShiftNames == {"prime", "midshift", "closing"}
Protected == {"/teams", "/sales/shift", "/attendance/today"}

\* the key header of request i is missing or differs from the secret
HasNoValidKey(i) == Get(req[i]).x_internal_key # Some(INTERNAL_KEY)

\* C1 as stated: the outer mapping of a successful /attendance/today has
\* exactly the keys prime, midshift and closing.
C1_ExactlyThreeKeys ==
    \A i \in Procs :
        (Succeeded(i) /\ Path(i) = "/attendance/today")
            => DOMAIN Body(i).data = ShiftNames

\* C1 as amended: prime, midshift and closing are always keys of the outer
\* mapping, and its key set is those three together with the shift labels
\* of the returned rows, so it is exactly the three when no row has another
\* label.
C1_ThreeKeysAndRowLabels ==
    \A i \in Procs :
        (Succeeded(i) /\ Path(i) = "/attendance/today")
            => /\ ShiftNames \subseteq DOMAIN Body(i).data
               /\ DOMAIN Body(i).data =
                     ShiftNames \cup {Get(rows[i])[k].shift : k \in DOMAIN Get(rows[i])}

\* a response built from rows of the prime shift only: midshift and closing
\* are present and empty
C1_Witness ==
    /\ Succeeded(1) /\ Path(1) = "/attendance/today"
    /\ Len(Get(rows[1])) = 2
    /\ \A k \in DOMAIN Get(rows[1]) : Get(rows[1])[k].shift = "prime"
    /\ DOMAIN Body(1).data = ShiftNames
    /\ DOMAIN Body(1).data["closing"] = {}

\* the entries of the rows rs with the given shift, location key and flag,
\* in the order of rs
RECURSIVE EntriesOf(_, _, _, _)
EntriesOf(rs, shift, page_key, cover) ==
    IF rs = <<>> THEN <<>>
    ELSE LET r == Head(rs)
         IN (IF r.shift = shift /\ r.page_key = page_key /\ r.is_cover = cover
               THEN <<Entry(r)>> ELSE <<>>)
            \o EntriesOf(Tail(rs), shift, page_key, cover)

\* g holds exactly the rows rs, each in the bucket and sequence of its own
BucketsHold(g, rs) ==
    /\ \A k \in DOMAIN rs :
          /\ rs[k].shift \in DOMAIN g
          /\ rs[k].page_key \in DOMAIN g[rs[k].shift]
    /\ \A sh \in DOMAIN g : \A pk \in DOMAIN g[sh] :
          /\ \E k \in DOMAIN rs : rs[k].shift = sh /\ rs[k].page_key = pk
          /\ g[sh][pk].users = EntriesOf(rs, sh, pk, FALSE)
          /\ g[sh][pk].covers = EntriesOf(rs, sh, pk, TRUE)

RECURSIVE SumLen(_, _)
SumLen(g, keys) ==
    IF keys = {} THEN 0
    ELSE LET k == CHOOSE x \in keys : TRUE
         IN Len(g[k[1]][k[2]].users) + Len(g[k[1]][k[2]].covers)
            + SumLen(g, keys \ {k})

EntryCount(g) == SumLen(g, {k \in (DOMAIN g) \X {"L1", "L2"} : k[2] \in DOMAIN g[k[1]]})

\* C2: for every returned row sequence and every (shift, location key) of it,
\* the bucket's users are the rows of that pair with a false covering flag and
\* its covers those with a true flag, both in the order of the rows; the output
\* holds as many entries as there are rows.  It holds of the rows grouped so
\* far during the loop, and of all rows in the response.
C2_BucketsAreSubsequences ==
    \A i \in Procs :
        /\ (pc[i] = "loop")
              => BucketsHold(Get(grouped[i]),
                             SubSeq(Get(rows[i]), 1, idx[i] - 1))
        /\ (Succeeded(i) /\ Path(i) = "/attendance/today")
              => /\ BucketsHold(Body(i).data, Get(rows[i]))
                 /\ EntryCount(Body(i).data) = Len(Get(rows[i]))

\* a response whose prime/L1 bucket holds two regular entries and a covering one
C2_Witness ==
    /\ Succeeded(1) /\ Path(1) = "/attendance/today"
    /\ "L1" \in DOMAIN Body(1).data["prime"]
    /\ Len(Body(1).data["prime"]["L1"].users) = 2
    /\ Len(Body(1).data["prime"]["L1"].covers) = 1
    /\ Body(1).data["prime"]["L1"].users[1].name = "Ana"
    /\ Body(1).data["prime"]["L1"].users[2].name = "Cy"

\* C5 as stated: a request to a protected endpoint whose key header is missing
\* or wrong ends in 401, whatever its other parameters, and its handling
\* reads no clock, resolves nothing and touches no store.
C5_RejectedBeforeAnything ==
    \A i \in Procs :
        (Done(i) /\ Path(i) \in Protected /\ HasNoValidKey(i))
            => /\ Status(i) = 401
               /\ ~Did(i, "clock") /\ ~Did(i, "resolve")
               /\ ~Did(i, "connect") /\ ~Did(i, "query")

\* C6 as stated: no endpoint, /health included, answers a request whose key
\* header is missing or wrong with a success response.
C6_NoSuccessWithoutKey ==
    \A i \in Procs :
        (Done(i) /\ HasNoValidKey(i)) => Status(i) # 200

\* C6 as amended: /teams, /sales/shift and /attendance/today never answer a
\* request whose key header is missing or wrong with a success response (the
\* answer is 401, or 422 when /sales/shift lacks team as well); /health checks
\* no key and answers 200 whatever the header.
C6_ProtectedNeedKeyHealthOpen ==
    \A i \in Procs :
        (Done(i) /\ HasNoValidKey(i))
            => IF Path(i) = "/health"
                 THEN Status(i) = 200
                 ELSE /\ Status(i) \in {401, 422}
                      /\ Status(i) = 422 <=> Get(req[i]).team = None /\ Path(i) = "/sales/shift"

\* /teams has answered 401 to a request with no key header
C6_Witness ==
    /\ Done(1) /\ Path(1) = "/teams"
    /\ Get(req[1]).x_internal_key = None
    /\ Get(resp[1]) = Unauthorized

\* C7: a /sales/shift request without team ends in a client error, and its
\* handling never connects to or queries a store.
C7_MissingTeamNoStore ==
    \A i \in Procs :
        (req[i] # None /\ Path(i) = "/sales/shift" /\ Get(req[i]).team = None)
            => /\ ~Did(i, "connect") /\ ~Did(i, "query")
               /\ Done(i) => (400 <= Status(i) /\ Status(i) < 500)
               /\ pc[i] \in {"dispatch", "done"}

\* a /sales/shift request with the right key and no team has been answered
C7_Witness ==
    /\ Done(1) /\ Path(1) = "/sales/shift"
    /\ Get(req[1]).team = None
    /\ Get(req[1]).x_internal_key = Some(INTERNAL_KEY)
    /\ Status(1) = 422
    /\ trace[1] = <<>>

\* the response of request i holds everything its query returned
Complete(i) ==
    CASE Path(i) = "/teams" -> Len(Body(i)) = Len(Get(rows[i]))
      [] Path(i) = "/sales/shift" -> Body(i).rows = Get(rows[i])
      [] Path(i) = "/attendance/today" ->
            /\ idx[i] = Len(Get(rows[i])) + 1
            /\ EntryCount(Body(i).data) = Len(Get(rows[i]))

\* the response of request i carries the empty result
EmptyResult(i) ==
    CASE Path(i) = "/teams" -> Body(i) = <<>>
      [] Path(i) = "/sales/shift" -> Body(i).rows = <<>>
      [] Path(i) = "/attendance/today" ->
            /\ DOMAIN Body(i).data = ShiftNames
            /\ \A sh \in ShiftNames : DOMAIN Body(i).data[sh] = {}

\* C8: on /teams, /sales/shift and /attendance/today a failure to connect, to
\* run the query or to leave the with block ends the request in a server-side
\* failure and never in a success; a success response is built from a query
\* that succeeded and holds all of its rows; a query that succeeds with zero
\* rows ends in a success response with the empty result.
C8_FailureIsNeverSuccess ==
    \A i \in Procs :
        (Done(i) /\ Path(i) \in Protected)
            => /\ Did(i, "error") => (Status(i) >= 500 /\ Status(i) < 600)
               /\ Status(i) = 200
                     => (~Did(i, "error") /\ Did(i, "query") /\ Complete(i))
               /\ (Did(i, "query") /\ ~Did(i, "error"))
                     => /\ Status(i) = 200
                        /\ Get(rows[i]) = <<>> => EmptyResult(i)

\* the query of /attendance/today has failed and the request ended in 500
C8_Witness ==
    /\ Done(1) /\ Path(1) = "/attendance/today"
    /\ trace[1] = <<"auth", "clock", "resolve", "connect", "query", "error">>
    /\ Status(1) = 500

\* the rows of the sales table that count for request i: its team's, with
\* event time at or after the shift start
Matching(i) ==
    {r \in sales :
        /\ r.team = Get(Get(req[i]).team)
        /\ EpochSeconds(r.ts) >= EpochSeconds(Get(start[i]))}

\* the amounts of the rows S added up, a NULL amount adding nothing
RECURSIVE AmountTotal(_)
AmountTotal(S) ==
    IF S = {} THEN 0
    ELSE LET r == CHOOSE x \in S : TRUE
         IN (IF r.amount = None THEN 0 ELSE Get(r.amount)) + AmountTotal(S \ {r})

\* rs lists each category of the matching rows once, with the sum of its
\* amounts, by total descending
SalesRowsRight(i, rs) ==
    /\ \A j, k \in DOMAIN rs : j # k => rs[j].page # rs[k].page
    /\ {rs[k].page : k \in DOMAIN rs} = {r.page : r \in Matching(i)}
    /\ \A k \in DOMAIN rs :
          rs[k].total = AmountTotal({r \in Matching(i) : r.page = rs[k].page})
    /\ \A j, k \in DOMAIN rs : j < k => rs[j].total >= rs[k].total

\* C9 as stated: the rows of a successful /sales/shift hold each category with
\* a matching transaction once, with the sum of its amounts, which is not
\* negative, by total descending.
C9_TotalsNeverNegative ==
    \A i \in Procs :
        (Succeeded(i) /\ Path(i) = "/sales/shift")
            => /\ SalesRowsRight(i, Body(i).rows)
               /\ \A k \in DOMAIN Body(i).rows : Body(i).rows[k].total >= 0

\* C9 as amended: the same, except that a total is the plain sum of the
\* matching amounts (a NULL amount adding nothing): it is not negative when no
\* matching amount is negative, and is negative when negative amounts outweigh
\* the others.
C9_TotalsAreSums ==
    \A i \in Procs :
        (Succeeded(i) /\ Path(i) = "/sales/shift")
            => /\ SalesRowsRight(i, Body(i).rows)
               /\ (\A r \in Matching(i) : r.amount = None \/ Get(r.amount) >= 0)
                     => \A k \in DOMAIN Body(i).rows : Body(i).rows[k].total >= 0

\* Scenario A: amounts 10 and 5 of category A and 7 of category B, for team X
\* since 08:00, have been returned as A 15, B 7
C9_Witness ==
    /\ Succeeded(1) /\ Path(1) = "/sales/shift"
    /\ {r.id : r \in sales} = {1, 2, 3}
    /\ Get(start[1]).hour = 8
    /\ Body(1).rows = <<[page |-> "A", total |-> 15], [page |-> "B", total |-> 7]>>

(***************************************************************************)
(* SpecConc: NumProcs requests handled at once against one store.  Any     *)
(* request may take its next step at any time.                             *)
(***************************************************************************)
ConcRequests ==
    {MkRequest("/health", None, None),
     MkRequest("/attendance/today", Some(INTERNAL_KEY), None),
     MkRequest("/sales/shift", Some(INTERNAL_KEY), Some("X"))}

\* two readings, a microsecond apart, on either side of the 06:00 cutoff
ConcClock ==
    {MkDateTime(2024, 3, 10, 5, 59, 59, 999999, PH_TZ),
     MkDateTime(2024, 3, 10, 6, 0, 0, 0, PH_TZ)}

InitConc ==
    /\ teams_table = {r \in TeamRowPool : r.id \in {1, 2}}
    /\ sales = {r \in SaleRowPool : r.id \in {1, 7}}
    /\ attendance_clockins = {r \in ClockinRowPool : r.id \in {1, 2, 8}}
    /\ InitIdle
    /\ InitTimeIdle

NextConc == \E i \in Procs : Step(i, ConcRequests, ConcClock)

SpecConc == InitConc /\ [][NextConc]_vars

\* the loop of attendance_today run from start to end over the rows rs
RECURSIVE GroupAll(_, _)
GroupAll(g, rs) ==
    IF rs = <<>> THEN g ELSE GroupAll(GroupRow(g, Head(rs)), Tail(rs))

\* the responses request r may get when it is the only request handled and
\* the clock reads nw
AloneResponses(r, nw) ==
    IF MissingRequired(r) THEN {ValidationError}
    ELSE IF r.path = "/health" THEN {MkResponse(200, [ok |-> TRUE])}
    ELSE IF KeyRejected(r.x_internal_key) THEN {Unauthorized}
    ELSE {StoreFailure} \cup
         (CASE r.path = "/teams" ->
                 {MkResponse(200, TeamsBody(rs)) : rs \in TeamsQuery(teams_table)}
            [] r.path = "/sales/shift" ->
                 LET st == shift_start_ph(Get(nw))
                 IN {MkResponse(200, SalesBody(Get(r.team), st, Get(nw), rs)) :
                        rs \in SalesQuery(sales, Get(r.team), AsTimezone(st, UTC_TZ))}
            [] r.path = "/attendance/today" ->
                 LET day == attendance_day_for(Get(nw))
                 IN {MkResponse(200, AttendanceBody(day, Get(nw), GroupAll(NewGrouped, rs))) :
                        rs \in AttendanceQuery(attendance_clockins, day)})

\* C10: however the steps of the requests interleave, each response is one the
\* request could get when handled alone with the same clock reading, and the
\* mapping a request is building holds its own rows grouped so far and
\* nothing of another request.
C10_ResponsesAsIfAlone ==
    \A i \in Procs :
        /\ Done(i) => Get(resp[i]) \in AloneResponses(Get(req[i]), now[i])
        /\ (pc[i] = "loop")
              => grouped[i]
                    = Some(GroupAll(NewGrouped, SubSeq(Get(rows[i]), 1, idx[i] - 1)))

\* two /attendance/today requests that read the clock on either side of the
\* cutoff are both inside their grouping loops, each holding its own entry
C10_Witness ==
    /\ pc[1] = "loop" /\ pc[2] = "loop"
    /\ idx[1] = 2 /\ idx[2] = 2
    /\ Get(att_day[1]) = MkDate(2024, 3, 10)
    /\ Get(att_day[2]) = MkDate(2024, 3, 9)
    /\ Len(Get(rows[1])) = 2 /\ Len(Get(rows[2])) = 1
    /\ Get(grouped[1]) # Get(grouped[2])

====
